---- MODULE Spec2Model ----
(***************************************************************************)
(* Model of src/misc.py of jedha-cli: the container-tooling probes, the    *)
(* construction of the docker compose command line and the running-lab     *)
(* listing.  The machine's state (which binaries are on the search path,   *)
(* what each fixed command exits with, the host OS) is chosen in Init and  *)
(* stays fixed; every function of the module is one action.                *)
(***************************************************************************)
EXTENDS Integers, Sequences, FiniteSets, TLC

\* ---------------------------------------------------------------- bounds
MaxTail == 2      \* longest argument tail a caller builds
MaxCalls == 2     \* calls of get_docker_compose_command on one list object
MaxText == 3      \* longest enumerated listing output, in characters

\* ------------------------------------------------------------- constants
DockerVersionCmd == <<"docker", "--version">>
ComposeV2Cmd == <<"docker", "compose", "version">>
ComposeV1Cmd == <<"docker-compose", "--version">>
DockerPsCmd == <<"docker", "ps">>
ComposeLsCmd == <<"docker", "compose", "ls">>

Commands == {DockerVersionCmd, ComposeV2Cmd, ComposeV1Cmd, DockerPsCmd, ComposeLsCmd}
\* binary missing from the search path, exit status non-zero, exit status zero
Outcomes == {"notfound", "nonzero", "zero"}
Systems == {"Darwin", "Linux"}

MsgDockerNotFound == "Docker not found. Please install it."
MsgComposeNotFound == "Docker Compose (either V1 or V2) not found. Please install Docker Desktop or docker-compose."
MsgAlreadyRunning == "You already have the following running labs"

\* tokens a caller puts in an argument tail
TailTokens == {"up", "sudo"}
\* characters of the enumerated listing outputs
TextChars == {"a", "b", " ", "\n"}

RECURSIVE SeqsUpTo(_, _)
SeqsUpTo(S, n) ==
    IF n = 0 THEN {<<>>}
    ELSE LET shorter == SeqsUpTo(S, n - 1)
         IN shorter \cup {Append(s, x) : s \in {t \in shorter : Len(t) = n - 1}, x \in S}

Tails == SeqsUpTo(TailTokens, MaxTail)

\* "NAME STATUS\nlab1 running\nlab2 running\n"
ExampleText ==
    <<"N","A","M","E"," ","S","T","A","T","U","S","\n",
      "l","a","b","1"," ","r","u","n","n","i","n","g","\n",
      "l","a","b","2"," ","r","u","n","n","i","n","g","\n">>
\* "NAME STATUS\n"
HeaderOnlyText == <<"N","A","M","E"," ","S","T","A","T","U","S","\n">>
\* "NAME\nlab1 x\nlab1 y\n": the same name on two lines
DuplicateText ==
    <<"N","A","M","E","\n","l","a","b","1"," ","x","\n","l","a","b","1"," ","y","\n">>

Texts == SeqsUpTo(TextChars, MaxText) \cup {ExampleText, HeaderOnlyText, DuplicateText}

VARIABLES
    outcome,     \* outcome[c]: what running command c does on this machine
    system,      \* platform.system()
    args,        \* the caller's list object passed as args
    calls,       \* calls of get_docker_compose_command made on that object
    op,          \* the function called last
    exc,         \* the exception it raised, "None" when it returned
    retBool,     \* its return value, when a bool
    retCmd,      \* its return value, when a command line
    retLabs,     \* its return value, when a set of lab names
    executed,    \* the commands subprocess.run was given during the call
    printed,     \* the messages it printed
    argsAtCall,  \* the value of the list object when the call started
    prevCmd,     \* what the previous call on the same list object left in it
    stdout,      \* the text "docker compose ls" writes on this machine
    verbose      \* the verbose argument of is_lab_already_running

vars == <<outcome, system, args, calls, op, exc, retBool, retCmd, retLabs,
          executed, printed, argsAtCall, prevCmd, stdout, verbose>>

sysvars == <<outcome, system, stdout>>

\* ------------------------------------------------------- the subprocess
\* subprocess.run(command, check=True): the exception it raises, or "None".
subprocess_run(command) ==
    CASE outcome[command] = "notfound" -> "FileNotFoundError"
      [] outcome[command] = "nonzero" -> "CalledProcessError"
      [] OTHER -> "None"

\* mutant: the except clause names CalledProcessError only
run_command_NoFileNotFound(command) ==
    LET e == subprocess_run(command)
    IN IF e = "None" THEN [exc |-> "None", ret |-> TRUE]
       ELSE IF e = "CalledProcessError" THEN [exc |-> "None", ret |-> FALSE]
       ELSE [exc |-> e, ret |-> FALSE]

run_command(command) ==
    LET e == subprocess_run(command)
    IN IF e = "None" THEN [exc |-> "None", ret |-> TRUE]
       ELSE IF e \in {"CalledProcessError", "FileNotFoundError"}
            THEN [exc |-> "None", ret |-> FALSE]
       ELSE [exc |-> e, ret |-> FALSE]

docker_is_installed == run_command(DockerVersionCmd)

docker_compose_v2_is_installed == run_command(ComposeV2Cmd)

docker_compose_v1_is_installed == run_command(ComposeV1Cmd)

docker_requires_sudo ==
    LET r == run_command(DockerPsCmd)
    IN [exc |-> r.exc, ret |-> ~r.ret]

\* ------------------------------------------------------------ list.insert
\* Python's list.insert(i, x) for i >= 0: an index past the end appends.
Insert(s, i, x) ==
    LET k == IF i > Len(s) THEN Len(s) ELSE i
    IN SubSeq(s, 1, k) \o <<x>> \o SubSeq(s, k + 1, Len(s))

\* -------------------------------------------- get_docker_compose_command
\* The result of a call: the exception raised ("None": it returned), the
\* value returned, the list object afterwards, the commands probed in
\* order, the messages printed.
Result(e, r, a, x, p) ==
    [exc |-> e, ret |-> r, args |-> a, executed |-> x, printed |-> p]

\* mutant: elevation needs both conditions
elevate_And(a, x) ==
    IF system /= "Darwin"
    THEN (IF docker_requires_sudo.ret
          THEN Result("None", Insert(a, 0, "sudo"), Insert(a, 0, "sudo"), x \o <<DockerPsCmd>>, <<>>)
          ELSE Result("None", a, a, x \o <<DockerPsCmd>>, <<>>))
    ELSE Result("None", a, a, x, <<>>)

\* lines 153-155: a is the list so far, x the commands probed so far.  The
\* "or" does not evaluate docker_requires_sudo() off Darwin.  The list
\* returned is the list object that was passed in.
elevate(a, x) ==
    IF system /= "Darwin"
    THEN Result("None", Insert(a, 0, "sudo"), Insert(a, 0, "sudo"), x, <<>>)
    ELSE IF docker_requires_sudo.ret
    THEN Result("None", Insert(a, 0, "sudo"), Insert(a, 0, "sudo"), x \o <<DockerPsCmd>>, <<>>)
    ELSE Result("None", a, a, x \o <<DockerPsCmd>>, <<>>)

\* mutant: the standalone binary is tried first
resolve_compose_V1First(a, x) ==
    IF docker_compose_v1_is_installed.ret
    THEN elevate(Insert(a, 0, "docker-compose"), x \o <<ComposeV1Cmd>>)
    ELSE IF docker_compose_v2_is_installed.ret
    THEN elevate(Insert(Insert(a, 0, "docker"), 1, "compose"), x \o <<ComposeV1Cmd, ComposeV2Cmd>>)
    ELSE Result("Exit1", <<>>, a, x \o <<ComposeV1Cmd, ComposeV2Cmd>>, <<MsgComposeNotFound>>)

\* mutant: "docker" is inserted before the compose probes
resolve_compose_EarlyInsert(a, x) ==
    IF docker_compose_v2_is_installed.ret
    THEN elevate(Insert(Insert(a, 0, "docker"), 1, "compose"), x \o <<ComposeV2Cmd>>)
    ELSE IF docker_compose_v1_is_installed.ret
    THEN elevate(Insert(a, 0, "docker-compose"), x \o <<ComposeV2Cmd, ComposeV1Cmd>>)
    ELSE Result("Exit1", <<>>, Insert(a, 0, "docker"), x \o <<ComposeV2Cmd, ComposeV1Cmd>>,
                <<MsgComposeNotFound>>)

\* lines 143-155: the compose variant is chosen, then the elevation
resolve_compose(a, x) ==
    IF docker_compose_v2_is_installed.ret
    THEN elevate(Insert(Insert(a, 0, "docker"), 1, "compose"), x \o <<ComposeV2Cmd>>)
    ELSE IF docker_compose_v1_is_installed.ret
    THEN elevate(Insert(a, 0, "docker-compose"), x \o <<ComposeV2Cmd, ComposeV1Cmd>>)
    ELSE Result("Exit1", <<>>, a, x \o <<ComposeV2Cmd, ComposeV1Cmd>>, <<MsgComposeNotFound>>)

\* mutant: the runtime is checked after the compose variants
get_docker_compose_command_LateCheck(a) ==
    LET r == resolve_compose(a, <<>>)
    IN IF ~docker_is_installed.ret
       THEN Result("Exit1", <<>>, a, r.executed \o <<DockerVersionCmd>>, <<MsgDockerNotFound>>)
       ELSE r

get_docker_compose_command(a) ==
    IF ~docker_is_installed.ret
    THEN Result("Exit1", <<>>, a, <<DockerVersionCmd>>, <<MsgDockerNotFound>>)
    ELSE resolve_compose(a, <<DockerVersionCmd>>)

\* ------------------------------------------------------- get_running_labs
\* str.splitlines() over texts whose only line boundary is "\n": a final
\* "\n" does not open an empty last line, and "" has no lines.
RECURSIVE splitlines(_)
splitlines(s) ==
    IF s = <<>> THEN <<>>
    ELSE IF \E i \in 1..Len(s) : s[i] = "\n"
    THEN LET k == CHOOSE i \in 1..Len(s) : s[i] = "\n" /\ \A j \in 1..(i - 1) : s[j] /= "\n"
         IN <<SubSeq(s, 1, k - 1)>> \o splitlines(SubSeq(s, k + 1, Len(s)))
    ELSE <<s>>

IsSpace(c) == c \in {" ", "\t", "\n"}

\* str.split() with no argument: runs of whitespace separate the tokens and
\* no token is empty.
RECURSIVE split(_)
split(s) ==
    IF s = <<>> THEN <<>>
    ELSE IF IsSpace(s[1]) THEN split(Tail(s))
    ELSE IF \E i \in 1..Len(s) : IsSpace(s[i])
    THEN LET k == CHOOSE i \in 1..Len(s) : IsSpace(s[i]) /\ \A j \in 1..(i - 1) : ~IsSpace(s[j])
         IN <<SubSeq(s, 1, k - 1)>> \o split(SubSeq(s, k, Len(s)))
    ELSE <<s>>

\* lines[1:]
Rest(lines) == SubSeq(lines, 2, Len(lines))

\* mutant: check=True is dropped, the output is parsed whatever the status
get_running_labs_NoCheck(text) ==
    IF outcome[ComposeLsCmd] = "notfound"
    THEN Result("FileNotFoundError", {}, args, <<ComposeLsCmd>>, <<>>)
    ELSE LET rest == Rest(splitlines(text))
         IN IF \E i \in 1..Len(rest) : split(rest[i]) = <<>>
            THEN Result("IndexError", {}, args, <<ComposeLsCmd>>, <<>>)
            ELSE Result("None", {split(rest[i])[1] : i \in 1..Len(rest)}, args,
                        <<ComposeLsCmd>>, <<>>)

\* text is what the listing writes to its standard output.  split()[0] of
\* a line without a token raises IndexError.
get_running_labs(text) ==
    LET e == subprocess_run(ComposeLsCmd)
    IN IF e /= "None"
       THEN Result(e, {}, args, <<ComposeLsCmd>>, <<>>)
       ELSE LET rest == Rest(splitlines(text))
            IN IF \E i \in 1..Len(rest) : split(rest[i]) = <<>>
               THEN Result("IndexError", {}, args, <<ComposeLsCmd>>, <<>>)
               ELSE Result("None", {split(rest[i])[1] : i \in 1..Len(rest)}, args,
                           <<ComposeLsCmd>>, <<>>)

\* the notice names the running labs
Notice(labs) == [msg |-> MsgAlreadyRunning, labs |-> labs]

\* mutant: True is returned only under verbose
is_lab_already_running_VerboseOnly(v, text) ==
    LET r == get_running_labs(text)
    IN IF r.exc /= "None" THEN Result(r.exc, FALSE, args, r.executed, <<>>)
       ELSE IF r.ret /= {} /\ v
       THEN Result("None", TRUE, args, r.executed, <<Notice(r.ret)>>)
       ELSE Result("None", FALSE, args, r.executed, <<>>)

is_lab_already_running(v, text) ==
    LET r == get_running_labs(text)
    IN IF r.exc /= "None" THEN Result(r.exc, FALSE, args, r.executed, <<>>)
       ELSE IF r.ret /= {}
       THEN Result("None", TRUE, args, r.executed, IF v THEN <<Notice(r.ret)>> ELSE <<>>)
       ELSE Result("None", FALSE, args, r.executed, <<>>)

\* ------------------------------------------------------------------ state
\* A binary is on the search path for all of its commands or for none.
SamePath(o) ==
    \A c, d \in Commands : c[1] = d[1] => ((o[c] = "notfound") <=> (o[d] = "notfound"))

InitCall ==
    /\ outcome \in {o \in [Commands -> Outcomes] : SamePath(o)}
    /\ system \in Systems
    /\ args = <<>>
    /\ calls = 0
    /\ op = "none"
    /\ exc = "None"
    /\ retBool = FALSE
    /\ retCmd = <<>>
    /\ retLabs = {}
    /\ executed = <<>>
    /\ printed = <<>>
    /\ argsAtCall = <<>>
    /\ prevCmd = <<>>
    /\ verbose = FALSE

\* The machine of the resolver: the listing is not run.
Init == InitCall /\ stdout = <<>>

\* What a listing writes: a failed one writes nothing to standard output.
Outputs == IF outcome[ComposeLsCmd] = "zero" THEN Texts ELSE {<<>>}

\* The machine of the listing.
InitLabs == InitCall /\ stdout \in Outputs

\* A probe called on its own: r is what it returned.
Probe(name, command, r) ==
    /\ op' = name
    /\ exc' = r.exc
    /\ retBool' = r.ret
    /\ executed' = <<command>>
    /\ retCmd' = <<>>
    /\ retLabs' = {}
    /\ printed' = <<>>
    /\ argsAtCall' = args
    /\ verbose' = FALSE
    /\ UNCHANGED <<sysvars, args, calls, prevCmd>>

RunCommand == \E c \in Commands : Probe("run_command", c, run_command(c))

DockerIsInstalled == Probe("docker_is_installed", DockerVersionCmd, docker_is_installed)

DockerComposeV2IsInstalled ==
    Probe("docker_compose_v2_is_installed", ComposeV2Cmd, docker_compose_v2_is_installed)

DockerComposeV1IsInstalled ==
    Probe("docker_compose_v1_is_installed", ComposeV1Cmd, docker_compose_v1_is_installed)

DockerRequiresSudo == Probe("docker_requires_sudo", DockerPsCmd, docker_requires_sudo)

\* The call get_docker_compose_command(a) on the caller's list object,
\* which holds a; n calls were made on that object before.
Build(a, n) ==
    LET r == get_docker_compose_command(a)
    IN /\ op' = "get_docker_compose_command"
       /\ exc' = r.exc
       /\ retCmd' = r.ret
       /\ args' = r.args
       /\ executed' = r.executed
       /\ printed' = r.printed
       /\ argsAtCall' = a
       /\ prevCmd' = IF n > 0 THEN a ELSE <<>>
       /\ calls' = n + 1
       /\ retBool' = FALSE
       /\ retLabs' = {}
       /\ verbose' = FALSE
       /\ UNCHANGED sysvars

\* The caller passes a list it has just built.
GetDockerComposeCommand == \E t \in Tails : Build(t, 0)

\* The caller passes the list object of its previous call again.
GetDockerComposeCommandAgain ==
    /\ calls > 0
    /\ calls < MaxCalls
    /\ Build(args, calls)

GetRunningLabs ==
        LET r == get_running_labs(stdout)
        IN /\ op' = "get_running_labs"
           /\ exc' = r.exc
           /\ retLabs' = r.ret
           /\ executed' = r.executed
           /\ printed' = r.printed
           /\ retBool' = FALSE
           /\ retCmd' = <<>>
           /\ argsAtCall' = args
           /\ verbose' = FALSE
           /\ UNCHANGED <<sysvars, args, calls, prevCmd>>

IsLabAlreadyRunning ==
    \E v \in BOOLEAN :
        LET r == is_lab_already_running(v, stdout)
        IN /\ op' = "is_lab_already_running"
           /\ exc' = r.exc
           /\ retBool' = r.ret
           /\ executed' = r.executed
           /\ printed' = r.printed
           /\ verbose' = v
           /\ retLabs' = {}
           /\ retCmd' = <<>>
           /\ argsAtCall' = args
           /\ UNCHANGED <<sysvars, args, calls, prevCmd>>

Next ==
    \/ RunCommand
    \/ DockerIsInstalled
    \/ DockerComposeV2IsInstalled
    \/ DockerComposeV1IsInstalled
    \/ DockerRequiresSudo
    \/ GetDockerComposeCommand
    \/ GetDockerComposeCommandAgain

Spec == Init /\ [][Next]_vars

NextLabs ==
    \/ GetRunningLabs
    \/ IsLabAlreadyRunning

SpecLabs == InitLabs /\ [][NextLabs]_vars

\* ----------------------------------------------------------------- claims
RuntimeAvailable == outcome[DockerVersionCmd] = "zero"
V2Available == outcome[ComposeV2Cmd] = "zero"
V1Available == outcome[ComposeV1Cmd] = "zero"
RequiresElevation == outcome[DockerPsCmd] /= "zero"
ElevationDue == system /= "Darwin" \/ RequiresElevation

Built == op = "get_docker_compose_command"
Returned == Built /\ exc = "None"

StripElevation(line) == IF line /= <<>> /\ line[1] = "sudo" THEN Tail(line) ELSE line

\* C1: with the runtime available, the command line returned, less its
\* leading elevation token, is docker compose + tail when V2 is available
\* and docker-compose + tail only when V2 is not and V1 is.
C1_PrefersV2 ==
    (Built /\ RuntimeAvailable) =>
        /\ V2Available =>
              exc = "None" /\ StripElevation(retCmd) = <<"docker", "compose">> \o argsAtCall
        /\ (~V2Available /\ V1Available) =>
              exc = "None" /\ StripElevation(retCmd) = <<"docker-compose">> \o argsAtCall
        /\ (exc = "None" /\ StripElevation(retCmd)[1] = "docker-compose") =>
              ~V2Available /\ V1Available

C1_Witness ==
    Returned /\ V2Available /\ V1Available /\ argsAtCall = <<"up", "sudo">>

\* C2 as stated: a returned line starts with sudo exactly when elevation
\* is due, and sudo occurs nowhere after position 0.
C2_SudoOnlyAtFront ==
    Returned =>
        /\ (retCmd[1] = "sudo") <=> ElevationDue
        /\ \A i \in 2..Len(retCmd) : retCmd[i] /= "sudo"

\* The tokens the call put in front of the tail it was given.
Prepended == SubSeq(retCmd, 1, Len(retCmd) - Len(argsAtCall))

\* C2 amended: a returned line starts with sudo exactly when elevation is
\* due, it ends with the tail the call was given, and among the tokens
\* the call put in front of that tail sudo occurs at most once, at
\* position 0.
C2_SudoIffElevationDue ==
    Returned =>
        /\ (retCmd[1] = "sudo") <=> ElevationDue
        /\ Len(retCmd) > Len(argsAtCall)
        /\ retCmd = Prepended \o argsAtCall
        /\ \A i \in 2..Len(Prepended) : Prepended[i] /= "sudo"

C2_Witness ==
    /\ Returned /\ system = "Darwin" /\ RequiresElevation
    /\ retCmd[1] = "sudo" /\ argsAtCall = <<"sudo", "up">>

\* C3: when docker --version fails the call exits with status 1 after
\* reporting the missing runtime, and docker --version is the only command
\* it has run: no compose probe, no docker ps.
C3_RuntimeMissingStopsProbing ==
    (Built /\ ~RuntimeAvailable) =>
        /\ exc = "Exit1"
        /\ printed = <<MsgDockerNotFound>>
        /\ executed = <<DockerVersionCmd>>

C3_Witness ==
    Built /\ outcome[DockerVersionCmd] = "nonzero" /\ V2Available /\ exc = "Exit1"

\* C4: with the runtime available and neither compose variant, the call
\* exits with status 1 after reporting the missing compose; a call that
\* fails returns nothing and leaves the caller's list as it was.
C4_NoPartialInvocation ==
    /\ (Built /\ RuntimeAvailable /\ ~V2Available /\ ~V1Available) =>
          exc = "Exit1" /\ printed = <<MsgComposeNotFound>>
    /\ (Built /\ exc /= "None") => retCmd = <<>> /\ args = argsAtCall

C4_Witness ==
    /\ Built /\ RuntimeAvailable /\ ~V2Available /\ ~V1Available
    /\ exc = "Exit1" /\ argsAtCall /= <<>>

ProbeOps == {"run_command", "docker_is_installed", "docker_compose_v2_is_installed",
             "docker_compose_v1_is_installed", "docker_requires_sudo"}

\* C5: a probe never raises, whether the binary is missing, exits non-zero
\* or exits zero; it returns true exactly when the command exited zero
\* (docker_requires_sudo: exactly when it did not).
C5_ProbeTotal ==
    op \in ProbeOps =>
        /\ exc = "None"
        /\ op /= "docker_requires_sudo" => (retBool <=> outcome[executed[1]] = "zero")
        /\ op = "docker_requires_sudo" => (retBool <=> outcome[executed[1]] /= "zero")

C5_Witness ==
    op = "docker_compose_v1_is_installed" /\ outcome[ComposeV1Cmd] = "notfound" /\ ~retBool

\* C6: the listing is issued to the compose tooling that
\* get_docker_compose_command resolves on the same machine.
C6_ListingUsesResolvedTool ==
    LET r == get_docker_compose_command(<<"ls">>)
    IN (op = "get_running_labs" /\ r.exc = "None") =>
           executed = <<StripElevation(r.ret)>>

\* The first token of every line after the header that has one.
ExpectedLabs(text) ==
    LET rest == Rest(splitlines(text))
    IN {split(rest[i])[1] : i \in {j \in 1..Len(rest) : split(rest[j]) /= <<>>}}

\* C7: for every text a successful listing writes, get_running_labs
\* returns the set of the first tokens of the lines after the header:
\* empty for the header alone, {lab1, lab2} for the two-lab example.
C7_LabsAreFirstTokens ==
    (op = "get_running_labs" /\ outcome[ComposeLsCmd] = "zero") =>
        /\ exc = "None"
        /\ retLabs = ExpectedLabs(stdout)
        /\ stdout = HeaderOnlyText => retLabs = {}
        /\ stdout = ExampleText => retLabs = {<<"l","a","b","1">>, <<"l","a","b","2">>}

\* C8: is_lab_already_running returns true exactly when the listing names
\* a lab, whatever verbose is; it prints a notice exactly when it returns
\* true under verbose.
C8_ActiveIffNonEmpty ==
    (op = "is_lab_already_running" /\ exc = "None") =>
        /\ retBool <=> (ExpectedLabs(stdout) /= {})
        /\ (printed /= <<>>) <=> (retBool /\ verbose)
        /\ printed /= <<>> => printed = <<Notice(ExpectedLabs(stdout))>>

C8_Witness ==
    op = "is_lab_already_running" /\ exc = "None" /\ retBool /\ ~verbose /\ printed = <<>>

\* C9: a successful call leaves the caller's list as it was, and a second
\* call on the same list returns what the first returned.
C9_TailUnmodified ==
    Returned =>
        /\ args = argsAtCall
        /\ prevCmd /= <<>> => retCmd = prevCmd

\* C10: when the listing exits non-zero, get_running_labs raises and
\* is_lab_already_running raises with it; neither returns a value.
C10_ListingFailurePropagates ==
    (op \in {"get_running_labs", "is_lab_already_running"} /\ outcome[ComposeLsCmd] = "nonzero") =>
        exc = "CalledProcessError"

C10_Witness ==
    /\ op = "is_lab_already_running" /\ outcome[ComposeLsCmd] = "nonzero"
    /\ exc = "CalledProcessError"

====
